---- MODULE Spec2Model ----
(***************************************************************************)
(* Attribute encoding of aries-credx-framework-rs: the AttributeEncoder    *)
(* trait (src/src/encoding/mod.rs), its two backends (FieldElement over    *)
(* the BLS12-381 scalar field, BigNumber over OpenSSL's BIGNUM) and the    *)
(* process-wide logger installation (src/src/ffi/logger.rs).               *)
(*                                                                         *)
(* Integers of the program are far wider than TLC's: a natural number is   *)
(* a big-endian sequence of bytes without leading zero bytes (<<>> is 0),  *)
(* and a backend value is a record [st, neg, mag]: sign and magnitude, as  *)
(* OpenSSL's BIGNUM holds them; st = "panic" stands for an unwrap() or an  *)
(* arithmetic overflow that aborted the call.                              *)
(***************************************************************************)
EXTENDS Integers, Sequences, FiniteSets, TLC

VARIABLES
    call,       \* the encode call under way: [op, backend, arg]
    result,     \* its outcome: [tag |-> "None" | "Ok" | "Err" | "Panic", val]
    log_state,  \* log's STATE: "UNINITIALIZED", "INITIALIZING" or "INITIALIZED"
    logger,     \* the installed log sink: "none", "ffi" or "default"
    max_level,  \* log's global maximum level
    pc,         \* per caller: position inside its init call
    kind,       \* per caller: which init it runs ("ffi" or "default")
    filter,     \* per caller: the level its default logger's filter yields
    ret         \* per caller: what its init returned ("none", "ok", "err")

vars == <<call, result, log_state, logger, max_level, pc, kind, filter, ret>>
encVars == <<call, result>>
logVars == <<log_state, logger, max_level, pc, kind, filter, ret>>

----------------------------------------------------------------------------
(* Natural numbers as big-endian byte sequences.                           *)

Byte == 0..255

Zeros(n) == [i \in 1..n |-> 0]

Fill(n, b) == [i \in 1..n |-> b]

\* The sequence without its leading zero bytes.
Strip(s) ==
    LET nz == {i \in 1..Len(s) : s[i] # 0}
    IN  IF nz = {} THEN <<>>
        ELSE LET f == CHOOSE i \in nz : \A j \in nz : i <= j
             IN  SubSeq(s, f, Len(s))

\* s left-padded with zero bytes to n bytes (Len(s) <= n).
PadLeft(s, n) == Zeros(n - Len(s)) \o s

\* -1, 0, 1 as a < b, a = b, a > b; both without leading zeros.
Cmp(a, b) ==
    IF Len(a) # Len(b) THEN (IF Len(a) < Len(b) THEN -1 ELSE 1)
    ELSE LET d == {i \in 1..Len(a) : a[i] # b[i]}
         IN  IF d = {} THEN 0
             ELSE LET f == CHOOSE i \in d : \A j \in d : i <= j
                  IN  IF a[f] < b[f] THEN -1 ELSE 1

\* The sequence in reverse order.
Reverse(s) == SubSeq([i \in 1..Len(s) |-> s[Len(s) + 1 - i]], 1, Len(s))

\* Digit-wise operations run over a range of byte positions i..j (position j
\* the least significant) and are split in halves, the low half evaluated
\* first, so that the evaluation stays shallow.  Each yields [s: the bytes,
\* least significant first, c: the carry out].

RECURSIVE AddRange(_, _, _, _, _)
AddRange(a, b, i, j, carry) ==
    IF i > j THEN [s |-> <<>>, c |-> carry]
    ELSE IF i = j THEN
        LET d == a[i] + b[i] + carry
        IN  [s |-> <<d % 256>>, c |-> d \div 256]
    ELSE LET mid == (i + j) \div 2
             lo  == AddRange(a, b, mid + 1, j, carry)
             hi  == AddRange(a, b, i, mid, lo.c)
         IN  [s |-> lo.s \o hi.s, c |-> hi.c]

AddN(a, b) ==
    LET n == IF Len(a) > Len(b) THEN Len(a) ELSE Len(b)
        r == AddRange(PadLeft(a, n), PadLeft(b, n), 1, n, 0)
    IN  Strip(Reverse(r.s \o <<r.c>>))

RECURSIVE SubRange(_, _, _, _, _)
SubRange(a, b, i, j, borrow) ==
    IF i > j THEN [s |-> <<>>, c |-> borrow]
    ELSE IF i = j THEN
        LET d == a[i] - b[i] - borrow
        IN  [s |-> <<IF d < 0 THEN d + 256 ELSE d>>, c |-> IF d < 0 THEN 1 ELSE 0]
    ELSE LET mid == (i + j) \div 2
             lo  == SubRange(a, b, mid + 1, j, borrow)
             hi  == SubRange(a, b, i, mid, lo.c)
         IN  [s |-> lo.s \o hi.s, c |-> hi.c]

\* a - b for a >= b.
SubN(a, b) == Strip(Reverse(SubRange(a, PadLeft(b, Len(a)), 1, Len(a), 0).s))

RECURSIVE MulRange(_, _, _, _, _)
MulRange(a, k, i, j, carry) ==
    IF i > j THEN [s |-> <<>>, c |-> carry]
    ELSE IF i = j THEN
        LET d == a[i] * k + carry
        IN  [s |-> <<d % 256>>, c |-> d \div 256]
    ELSE LET mid == (i + j) \div 2
             lo  == MulRange(a, k, mid + 1, j, carry)
             hi  == MulRange(a, k, i, mid, lo.c)
         IN  [s |-> lo.s \o hi.s, c |-> hi.c]

\* a * k for a small k (0 < k <= 256).
MulSmall(a, k) ==
    LET r == MulRange(a, k, 1, Len(a), 0)
    IN  Strip(Reverse(r.s \o <<r.c>>))

\* a * 2: the carry into a byte is the top bit of the byte below it.
Double(a) ==
    LET n == Len(a)
    IN  Strip([i \in 1..(n + 1) |->
                 ((IF i = 1 THEN 0 ELSE 2 * a[i - 1]) % 256)
                 + (IF i <= n /\ a[i] >= 128 THEN 1 ELSE 0)])

\* a \div 2: the bit shifted into a byte is the low bit of the byte above it.
Halve(a) ==
    Strip([i \in 1..Len(a) |->
             (a[i] \div 2) + (IF i > 1 /\ a[i - 1] % 2 = 1 THEN 128 ELSE 0)])

IsEven(a) == a = <<>> \/ a[Len(a)] % 2 = 0

\* 2^k.
Pow2(k) == <<2 ^ (k % 8)>> \o Zeros(k \div 8)

\* A small natural number of the model (below 2^31) as bytes.
RECURSIVE NatBytes(_)
NatBytes(n) == IF n = 0 THEN <<>> ELSE Append(NatBytes(n \div 256), n % 256)

----------------------------------------------------------------------------
(* Backend values.                                                         *)

Val(neg, mag) == [st |-> "ok", neg |-> neg, mag |-> mag]

\* An unwrap() of an error, or an arithmetic overflow: the call aborts.
Panic == [st |-> "panic", neg |-> FALSE, mag |-> <<>>]

IsOk(x) == x.st = "ok"

\* Signed addition of sign-magnitude integers (OpenSSL's BN_add).
SignedAdd(x, y) ==
    IF x.neg = y.neg THEN Val(x.neg /\ AddN(x.mag, y.mag) # <<>>, AddN(x.mag, y.mag))
    ELSE LET c == Cmp(x.mag, y.mag)
         IN  IF c = 0 THEN Val(FALSE, <<>>)
             ELSE IF c > 0 THEN Val(x.neg, SubN(x.mag, y.mag))
             ELSE Val(y.neg, SubN(y.mag, x.mag))

\* BigNumber's Neg: the magnitude copied, the sign flipped; BN_set_negative
\* leaves zero non-negative.
BigNumber_neg(x) ==
    IF ~IsOk(x) THEN Panic ELSE Val((~x.neg) /\ x.mag # <<>>, x.mag)

BigNumber_add(x, y) ==
    IF ~IsOk(x) \/ ~IsOk(y) THEN Panic ELSE SignedAdd(x, y)

BigNumber_sub(x, y) ==
    IF ~IsOk(x) \/ ~IsOk(y) THEN Panic
    ELSE SignedAdd(x, Val((~y.neg) /\ y.mag # <<>>, y.mag))

\* From<u64>: BigNum::from_slice of the 8 big-endian bytes.
BigNumber_from_u64(u) == Val(FALSE, Strip(u))

BigNumber_max == Val(FALSE, Strip(Fill(32, 255)))

BITS_IN_ZERO == 254

\* BigNum::new() with bit BITS_IN_ZERO set.
BigNumber_zero_center == Val(FALSE, Pow2(BITS_IN_ZERO))

\* BigNum::from_slice: the bytes as a big-endian magnitude, of any length.
BigNumber_from_vec(bytes) == Val(FALSE, Strip(bytes))

\* The order of the BLS12-381 scalar field (amcl's rom::CURVE_ORDER).
CurveOrder ==
    << 115, 237, 167,  83,  41, 157, 125,  72,  51,  57, 216,   8,   9, 161, 216,   5,
        83, 189, 164,   2, 255, 254,  91, 254, 255, 255, 255, 255,   0,   0,   0,   1 >>

\* The byte length FieldElement::from_bytes insists on: amcl's MODBYTES of the
\* BLS12-381 build.
FieldElement_SIZE == 48

\* x * 2^k.
ShiftLeft(x, k) ==
    IF x = <<>> THEN <<>> ELSE MulSmall(x, 2 ^ (k % 8)) \o Zeros(k \div 8)

\* One step of the reduction: s subtracted when it fits.
CondSub(x, s) == IF Cmp(x, s) >= 0 THEN SubN(x, s) ELSE x

\* The steps for the shifts hi, hi - 1, ..., lo of m, in that order.
RECURSIVE RModRange(_, _, _, _)
RModRange(x, m, hi, lo) ==
    IF hi < lo THEN x
    ELSE IF hi = lo THEN CondSub(x, ShiftLeft(m, hi))
    ELSE LET mid == (hi + lo) \div 2
             top == RModRange(x, m, hi, mid + 1)
         IN  IF Cmp(top, m) < 0 THEN top ELSE RModRange(top, m, mid, lo)

\* BigNum::rmod: x reduced modulo m by shift and subtract.
RMod(x, m) ==
    IF Cmp(x, m) < 0 THEN x
    ELSE RModRange(x, m, 8 * (Len(x) - Len(m)) + 7, 0)

\* rmod on a sum of limbs: normalised, and reduced unless it compares below
\* the modulus, which a negative total does.
FieldElement_rmod(s) == IF s.neg THEN s ELSE Val(FALSE, RMod(s.mag, CurveOrder))

\* FieldElement::plus: the limbs added, then rmod.
FieldElement_add(x, y) ==
    IF ~IsOk(x) \/ ~IsOk(y) THEN Panic
    ELSE FieldElement_rmod(SignedAdd(x, y))

\* modneg(b, m): b reduced, then m - b.
FieldElement_modneg(y) ==
    LET r == FieldElement_rmod(y)
    IN  SignedAdd(Val(FALSE, CurveOrder), Val((~r.neg) /\ r.mag # <<>>, r.mag))

\* FieldElement::minus: self + modneg(b), then rmod.
FieldElement_sub(x, y) ==
    IF ~IsOk(x) \/ ~IsOk(y) THEN Panic
    ELSE FieldElement_rmod(SignedAdd(x, FieldElement_modneg(y)))

\* FieldElement's Neg: zero minus self.
FieldElement_neg(x) == FieldElement_sub(Val(FALSE, <<>>), x)

\* From<u64> for FieldElement: BigNum::new_int(x as isize), one signed limb, so
\* a value with the top bit set enters as the negative number of those bits.
FieldElement_from_u64(u) ==
    IF u[1] >= 128 THEN Val(TRUE, SubN(<<1>> \o Zeros(8), Strip(u)))
    ELSE Val(FALSE, Strip(u))

\* FieldElement::from(BigNum) of the curve order: the value is kept as given.
FieldElement_max == Val(FALSE, CurveOrder)

\* FieldElement::one().shift_left(BITS_IN_ZERO).
FieldElement_zero_center == Val(FALSE, ShiftLeft(<<1>>, BITS_IN_ZERO))

\* FieldElement::from_bytes: an error unless exactly FieldElement_SIZE bytes,
\* else the big-endian value reduced modulo the curve order.
FieldElement_from_bytes(data) ==
    IF Len(data) # FieldElement_SIZE THEN Panic
    ELSE Val(FALSE, RMod(Strip(data), CurveOrder))

\* Mutant: a long input keeps its trailing bytes, not its leading ones.
FieldElement_data_KeepTail(bytes) ==
    IF Len(bytes) < FieldElement_SIZE
        THEN Zeros(FieldElement_SIZE - Len(bytes)) \o bytes
    ELSE IF Len(bytes) > FieldElement_SIZE
        THEN SubSeq(bytes, Len(bytes) - FieldElement_SIZE + 1, Len(bytes))
    ELSE bytes

\* Mutant: a short input is handed on as it is.
FieldElement_data_NoPad(bytes) ==
    IF Len(bytes) > FieldElement_SIZE THEN SubSeq(bytes, 1, FieldElement_SIZE) ELSE bytes

\* The bytes from_vec hands to from_bytes: left-padded when short, the leading
\* FieldElement_SIZE bytes when long.
FieldElement_data(bytes) ==
    IF Len(bytes) < FieldElement_SIZE
        THEN Zeros(FieldElement_SIZE - Len(bytes)) \o bytes
    ELSE IF Len(bytes) > FieldElement_SIZE
        THEN SubSeq(bytes, 1, FieldElement_SIZE)
    ELSE bytes

\* from_vec unwraps from_bytes' result.
FieldElement_from_vec(bytes) == FieldElement_from_bytes(FieldElement_data(bytes))

Backends == {"FieldElement", "BigNumber"}

max(b) == IF b = "FieldElement" THEN FieldElement_max ELSE BigNumber_max

zero_center(b) ==
    IF b = "FieldElement" THEN FieldElement_zero_center ELSE BigNumber_zero_center

from_vec(b, bytes) ==
    IF b = "FieldElement" THEN FieldElement_from_vec(bytes) ELSE BigNumber_from_vec(bytes)

from_u64(b, u) ==
    IF b = "FieldElement" THEN FieldElement_from_u64(u) ELSE BigNumber_from_u64(u)

add(b, x, y) ==
    IF b = "FieldElement" THEN FieldElement_add(x, y) ELSE BigNumber_add(x, y)

sub(b, x, y) ==
    IF b = "FieldElement" THEN FieldElement_sub(x, y) ELSE BigNumber_sub(x, y)

neg(b, x) == IF b = "FieldElement" THEN FieldElement_neg(x) ELSE BigNumber_neg(x)

----------------------------------------------------------------------------
(* Machine integers: a u64, an i64 or an isize is its 8 big-endian bytes.  *)

ISIZE_MIN == <<128>> \o Zeros(7)

IsNegative(v) == v[1] >= 128

\* `as u64` of a signed 64-bit value: the same bits.
AsU64(v) == v

\* The 8 bytes of a signed integer of the model (|n| below 2^31).
I64Bytes(n) ==
    IF n >= 0 THEN PadLeft(NatBytes(n), 8) ELSE SubN(Pow2(64), NatBytes(-n))

\* `-value` on isize: overflows (and aborts) on the minimum value only.
CheckedNeg(v) ==
    IF v = ISIZE_MIN THEN <<>>
    ELSE PadLeft(SubN(Pow2(64), Strip(v)), 8)

----------------------------------------------------------------------------
(* Outcomes of a call.                                                     *)

NoResult == [tag |-> "None", val |-> Panic]

Err == [tag |-> "Err", val |-> Panic]

\* Ok(x), unless computing x aborted.
Ok(x) == IF IsOk(x) THEN [tag |-> "Ok", val |-> x] ELSE [tag |-> "Panic", val |-> Panic]

----------------------------------------------------------------------------
(* bigdecimal's BigDecimal: int_val * 10^(-scale), int_val in sign and     *)
(* magnitude.                                                              *)

\* The number a run of 8 decimal digits spells (below 10^8).
Dec8(ds, i) ==
    ds[i] * 10000000 + ds[i + 1] * 1000000 + ds[i + 2] * 100000 + ds[i + 3] * 10000
    + ds[i + 4] * 1000 + ds[i + 5] * 100 + ds[i + 6] * 10 + ds[i + 7]

\* BigInt's parse of 16 decimal digits: the high 8 times 10^8 plus the low 8.
DecDigits(ds) ==
    AddN(MulSmall(MulSmall(MulSmall(MulSmall(NatBytes(Dec8(ds, 1)), 100), 100), 100), 100),
         NatBytes(Dec8(ds, 9)))

\* BigDecimal::from(f64) parses format!("{:.15e}", n): one digit, 15 decimals,
\* a decimal exponent.  A normal f64 is given here by that text: its sign, its
\* 16 significant digits and its exponent.
BigDecimal_from_f64(v) ==
    [neg |-> v.neg, int_val |-> DecDigits(v.digits), scale |-> 15 - v.exp]

BigDecimal_double(b) ==
    IF b.int_val = <<>> THEN b ELSE [b EXCEPT !.int_val = Double(b.int_val)]

BigDecimal_half(b) ==
    IF b.int_val = <<>> THEN b
    ELSE IF IsEven(b.int_val) THEN [b EXCEPT !.int_val = Halve(b.int_val)]
    ELSE [b EXCEPT !.int_val = MulSmall(b.int_val, 5), !.scale = b.scale + 1]

\* for _ in 0..n { b = b.double(); }  The n steps are split in two halves to
\* keep the evaluation shallow.
RECURSIVE DoubleTimes(_, _)
DoubleTimes(b, n) ==
    IF n = 0 THEN b
    ELSE IF n = 1 THEN BigDecimal_double(b)
    ELSE LET h == DoubleTimes(b, n \div 2)
         IN  IF h.int_val = <<>> THEN h ELSE DoubleTimes(h, n - (n \div 2))

RECURSIVE HalfTimes(_, _)
HalfTimes(b, n) ==
    IF n = 0 THEN b
    ELSE IF n = 1 THEN BigDecimal_half(b)
    ELSE LET h == HalfTimes(b, n \div 2)
         IN  IF h.int_val = <<>> THEN h ELSE HalfTimes(h, n - (n \div 2))

\* while d > 15 { b = b.half(); d -= 1; }: d - 15 halvings when d > 15.
HalfWhile(b, d) == IF d > 15 THEN HalfTimes(b, d - 15) ELSE b

\* The BigInt the Normal arm ends with: into_bigint_and_exponent().0.
ScaledBigInt(v) ==
    LET b == DoubleTimes(BigDecimal_from_f64(v), BITS_IN_ZERO)
    IN  HalfWhile(b, b.scale)

----------------------------------------------------------------------------
(* The transforms of trait AttributeEncoder.                               *)

encoded_null(b) == Ok(from_vec(b, [i \in 1..32 |-> IF i = 32 THEN 7 ELSE 0]))

\* Mutant: the positive arm offset by zero_center like the negative one.
encode_from_f64_OffsetPlus(b, v) ==
    Ok(CASE v.cls \in {"Nan", "Subnormal"} -> sub(b, max(b), from_u64(b, I64Bytes(8)))
         [] v.cls = "Zero" -> zero_center(b)
         [] v.cls = "Infinite" ->
                IF ~v.neg THEN sub(b, max(b), from_u64(b, I64Bytes(9)))
                ELSE from_u64(b, I64Bytes(8))
         [] v.cls = "Normal" ->
                LET bi == ScaledBigInt(v)
                IN  IF bi.int_val = <<>> THEN zero_center(b)
                    ELSE IF ~bi.neg THEN add(b, from_vec(b, bi.int_val), zero_center(b))
                    ELSE add(b, neg(b, from_vec(b, bi.int_val)), zero_center(b)))

\* Mutant: only NaN is caught before the arithmetic; a subnormal takes the
\* Normal arm.
encode_from_f64_SubnormalAsNormal(b, v) ==
    Ok(CASE v.cls = "Nan" -> sub(b, max(b), from_u64(b, I64Bytes(8)))
         [] v.cls = "Zero" -> zero_center(b)
         [] v.cls = "Infinite" ->
                IF ~v.neg THEN sub(b, max(b), from_u64(b, I64Bytes(9)))
                ELSE from_u64(b, I64Bytes(8))
         [] v.cls \in {"Normal", "Subnormal"} ->
                LET bi == ScaledBigInt(v)
                IN  IF bi.int_val = <<>> THEN zero_center(b)
                    ELSE IF ~bi.neg THEN from_vec(b, bi.int_val)
                    ELSE add(b, neg(b, from_vec(b, bi.int_val)), zero_center(b)))

encode_from_f64(b, v) ==
    Ok(CASE v.cls \in {"Nan", "Subnormal"} -> sub(b, max(b), from_u64(b, I64Bytes(8)))
         [] v.cls = "Zero" -> zero_center(b)
         [] v.cls = "Infinite" ->
                IF ~v.neg THEN sub(b, max(b), from_u64(b, I64Bytes(9)))
                ELSE from_u64(b, I64Bytes(8))
         [] v.cls = "Normal" ->
                LET bi == ScaledBigInt(v)
                IN  IF bi.int_val = <<>> THEN zero_center(b)
                    ELSE IF ~bi.neg THEN from_vec(b, bi.int_val)
                    ELSE add(b, neg(b, from_vec(b, bi.int_val)), zero_center(b)))

\* Mutant: the minimum value is negated like any other negative value.
encode_from_isize_NoMinCase(b, value) ==
    IF IsNegative(value) THEN
        LET n == CheckedNeg(value)
        IN  IF n = <<>> THEN Ok(Panic)
            ELSE Ok(sub(b, zero_center(b), from_u64(b, AsU64(n))))
    ELSE Ok(add(b, zero_center(b), from_u64(b, AsU64(value))))

encode_from_isize(b, value) ==
    IF IsNegative(value) THEN
        IF value = ISIZE_MIN THEN Ok(sub(b, zero_center(b), from_vec(b, value)))
        ELSE LET n == CheckedNeg(value)
             IN  IF n = <<>> THEN Ok(Panic)
                 ELSE Ok(sub(b, zero_center(b), from_u64(b, AsU64(n))))
    ELSE Ok(add(b, zero_center(b), from_u64(b, AsU64(value))))

encode_from_usize(b, value) == Ok(add(b, zero_center(b), from_vec(b, value)))

\* D::digest yields 32 bytes; the transform is given the digest.
encode_from_utf8_as_hash(b, hash) == Ok(from_vec(b, hash))

----------------------------------------------------------------------------
(* chrono: an RFC3339 text is given parsed, [wf, y, mo, d, h, mi, s, ms,   *)
(* off]: whether it is well formed, its civil date and time of day (second *)
(* 60 is a leap second), its fraction of a second in milliseconds, and its *)
(* offset from UTC in minutes.                                             *)

\* Days from 1970-01-01 to the civil date y-mo-d (proleptic Gregorian).
DaysFromCivil(y, mo, d) ==
    LET yy  == IF mo <= 2 THEN y - 1 ELSE y
        era == yy \div 400
        yoe == yy - era * 400
        mp  == IF mo > 2 THEN mo - 3 ELSE mo + 9
        doy == (153 * mp + 2) \div 5 + d - 1
        doe == yoe * 365 + yoe \div 4 - yoe \div 100 + doy
    IN  era * 146097 + doe - 719468

\* Whole seconds from the UTC midnight that starts the civil date to the
\* instant, as chrono keeps them: a leap second is second 59 with a fraction
\* of a second or more, and the offset is taken off with the fraction aside.
SecondOfDay(dt) ==
    dt.h * 3600 + dt.mi * 60 + (IF dt.s = 60 THEN 59 ELSE dt.s) - dt.off * 60

\* The fraction chrono keeps beside the seconds, in milliseconds: 1000 and
\* more within a leap second.
FracMillis(dt) == dt.ms + (IF dt.s = 60 THEN 1000 ELSE 0)

\* The low 8 bytes: arithmetic on i64 is arithmetic modulo 2^64.
Low8(x) == IF Len(x) > 8 THEN SubSeq(x, Len(x) - 7, Len(x)) ELSE PadLeft(x, 8)

I64Mul(u, k) == Low8(MulSmall(Strip(u), k))

I64Add(u, v) == Low8(AddN(Strip(u), Strip(v)))

\* DateTime::timestamp(): seconds since the epoch, an i64; the fraction, a
\* leap second's included, is not counted.
Timestamp(dt) ==
    I64Add(I64Mul(I64Mul(I64Mul(I64Bytes(DaysFromCivil(dt.y, dt.mo, dt.d)), 240), 180), 2),
           I64Bytes(SecondOfDay(dt)))

\* (dt - base).num_days() for base = 1900-01-01T00:00:00.000+00:00: the
\* difference counts the fraction and a leap second, num_seconds() and then
\* num_days() round toward zero.
NumDaysSince1900(dt) ==
    LET secs == SecondOfDay(dt) + FracMillis(dt) \div 1000
        frac == FracMillis(dt) % 1000
        fl   == DaysFromCivil(dt.y, dt.mo, dt.d) - DaysFromCivil(1900, 1, 1)
                    + secs \div 86400
    IN  IF fl < 0 /\ (secs % 86400 > 0 \/ frac > 0) THEN fl + 1 ELSE fl

encode_from_rfc3339_as_unixtimestamp(b, value) ==
    IF ~value.wf THEN Err
    ELSE Ok(add(b, zero_center(b), from_u64(b, AsU64(Timestamp(value)))))

encode_from_rfc3339_as_dayssince1900(b, value) ==
    IF ~value.wf THEN Err
    ELSE Ok(add(b, zero_center(b), from_u64(b, AsU64(I64Bytes(NumDaysSince1900(value))))))

----------------------------------------------------------------------------
(* The inputs the calls are drawn from.                                    *)

\* Decimal exponents are taken within ExpSpan of the pivots below.
ExpSpan == 3

\* Machine integers are taken within MaxSmall of 0 and of the extremes.
MaxSmall == 3

\* Byte vectors are taken up to MaxExtra bytes around the fixed width.
MaxExtra == 2

\* Seconds of the minute tried for each date.
MaxSecond == 1

Digits16(hi, lo) ==
    [i \in 1..16 |->
        IF i <= 8 THEN (hi \div (10 ^ (8 - i))) % 10 ELSE (lo \div (10 ^ (16 - i))) % 10]

\* Digits of f64 texts: 1.0, 1.33f32, f64::MAX, 2^50, 7 * 2^48, f64::MIN_POSITIVE.
Mantissas ==
    { Digits16(10000000, 0), Digits16(13300000, 42915344), Digits16(17976931, 34862316),
      Digits16(11258999, 6842624), Digits16(19703248, 36974592),
      Digits16(22250738, 58507201) }

ExpPivots == {-305, -300, 0, 305}

Exps == {e \in -308..308 : \E p \in ExpPivots : e - p \in -ExpSpan..ExpSpan}

\* a <= b for two runs of 16 digits.
DigitsLE(a, b) ==
    \/ Dec8(a, 1) < Dec8(b, 1)
    \/ Dec8(a, 1) = Dec8(b, 1) /\ Dec8(a, 9) <= Dec8(b, 9)

\* The normal range of f64: 2.225073858507201e-308 to 1.797693134862316e308.
InNormalRange(digits, exp) ==
    /\ exp = -308 => DigitsLE(Digits16(22250738, 58507201), digits)
    /\ exp = 308 => DigitsLE(digits, Digits16(17976931, 34862316))

F64Normal ==
    { [cls |-> "Normal", neg |-> n, digits |-> m, exp |-> e] :
        n \in BOOLEAN, m \in Mantissas, e \in Exps }

\* The smallest subnormal, 4.940656458412465e-324, and the largest,
\* 2.225073858507201e-308.
F64Subnormal ==
    { [cls |-> "Subnormal", neg |-> n, digits |-> Digits16(49406564, 58412465), exp |-> -324] :
        n \in BOOLEAN }
    \cup
    { [cls |-> "Subnormal", neg |-> n, digits |-> Digits16(22250738, 58507201), exp |-> -308] :
        n \in BOOLEAN }

F64Other ==
    { [cls |-> c, neg |-> n, digits |-> Digits16(0, 0), exp |-> 0] :
        c \in {"Nan", "Zero", "Infinite"}, n \in BOOLEAN }

F64Values ==
    {v \in F64Normal : InNormalRange(v.digits, v.exp)} \cup F64Subnormal \cup F64Other

ISIZE_MAX == <<127>> \o Fill(7, 255)

USIZE_MAX == Fill(8, 255)

IsizeValues ==
    { I64Bytes(k) : k \in -MaxSmall..MaxSmall }
    \cup { PadLeft(SubN(Strip(ISIZE_MAX), NatBytes(k)), 8) : k \in 0..MaxSmall }
    \cup { PadLeft(AddN(Strip(ISIZE_MIN), NatBytes(k)), 8) : k \in 0..MaxSmall }
    \cup { I64Bytes(255), I64Bytes(256), I64Bytes(-256), I64Bytes(2147483647) }

UsizeValues ==
    { I64Bytes(k) : k \in 0..MaxSmall }
    \cup { PadLeft(SubN(USIZE_MAX, NatBytes(k)), 8) : k \in 0..MaxSmall }
    \cup { ISIZE_MIN, ISIZE_MAX, I64Bytes(256) }

Date(y, mo, d, h, mi, s, ms, off) ==
    [wf |-> TRUE, y |-> y, mo |-> mo, d |-> d, h |-> h, mi |-> mi, s |-> s, ms |-> ms,
     off |-> off]

\* "1900" and its like: not an RFC3339 date-time.
Malformed ==
    [wf |-> FALSE, y |-> 1900, mo |-> 1, d |-> 1, h |-> 0, mi |-> 0, s |-> 0, ms |-> 0,
     off |-> 0]

\* The dates of the tests, the epoch, 1900 and 2038 and their neighbours,
\* leap seconds, and instants a fraction of a second past a day boundary.
DateValues ==
    { Malformed }
    \cup UNION { { Date(1970, 1, 1, 0, 0, s, 0, 0), Date(2018, 1, 26, 18, 30, 9 + s, 453, 0),
                   Date(2020, 1, 26, 0, 30, 9 + s, 0, 1080),
                   Date(1982, 12, 20, 10, 45, s, 0, -360),
                   Date(1969, 12, 31, 23, 59, 59 - s, 0, 0), Date(1900, 1, 1, 0, 0, s, 0, 0),
                   Date(1899, 12, 31, 23, 59, 59 - s, 0, 0),
                   Date(1899, 12, 30, 12, 0, s, 0, 0),
                   Date(2038, 1, 19, 3, 14, 8 + s, 0, 0), Date(1, 1, 1, 0, 0, s, 0, 0),
                   Date(1970, 1, 1, 1, 0, s, 0, 60), Date(1969, 12, 31, 19, 0, s, 0, -300) } :
                 s \in 0..MaxSecond }
    \cup { Date(2016, 12, 31, 23, 59, 60, 0, 0), Date(1899, 12, 31, 23, 59, 60, 0, 0),
           Date(2017, 1, 1, 5, 29, 60, 500, 330), Date(1969, 12, 31, 23, 59, 60, 999, 0),
           Date(1899, 12, 31, 0, 0, 0, 500, 0), Date(1899, 12, 30, 0, 0, 0, 1, 0),
           Date(1900, 1, 1, 0, 0, 0, 1, 0), Date(1969, 12, 31, 23, 59, 59, 999, 0),
           Date(1899, 12, 31, 23, 59, 59, 999, 0) }

\* Digests: the extremes, the curve order and its neighbours, the null pattern.
HashValues ==
    { Zeros(32), Fill(32, 255), CurveOrder, PadLeft(SubN(CurveOrder, <<1>>), 32),
      PadLeft(AddN(CurveOrder, <<1>>), 32), Zeros(31) \o <<7>>, Zeros(31) \o <<8>>,
      <<64>> \o Zeros(31) }

VecLens ==
    {0, 1, 2, 8, 31, 32, 33, 39}
    \cup ((FieldElement_SIZE - MaxExtra)..(FieldElement_SIZE + MaxExtra))

VecValues ==
    { IF n = 0 THEN <<>>
      ELSE IF n = 1 THEN <<last>>
      ELSE <<lead>> \o Fill(n - 2, fill) \o <<last>> :
        n \in VecLens, lead \in {0, 1, 255}, fill \in {0, 255}, last \in {1, 7} }

Call(op, b, arg) == [op |-> op, backend |-> b, arg |-> arg]

Calls ==
    { Call("encoded_null", b, <<>>) : b \in Backends }
    \cup { Call("unixtimestamp", b, v) : b \in Backends, v \in DateValues }
    \cup { Call("dayssince1900", b, v) : b \in Backends, v \in DateValues }
    \cup { Call("utf8_as_hash", b, v) : b \in Backends, v \in HashValues }
    \cup { Call("f64", b, v) : b \in Backends, v \in F64Values }
    \cup { Call("isize", b, v) : b \in Backends, v \in IsizeValues }
    \cup { Call("usize", b, v) : b \in Backends, v \in UsizeValues }
    \cup { Call("from_vec", b, v) : b \in Backends, v \in VecValues }

----------------------------------------------------------------------------
(* The logger: callers run AriesCredXFrameworkLogger::init ("ffi") or      *)
(* AriesCredXFrameworkDefaultLogger::init ("default"), each step atomic.   *)

\* How many callers initialise a logger.
NumCallers == 3

Callers == 1..NumCallers

\* log::LevelFilter, as its discriminants.
LevelOff == 0

LevelInfo == 3

LevelTrace == 5

\* The levels a default logger's filter pattern may yield.
FilterLevels == {LevelOff, LevelInfo, LevelTrace}

\* No init call has begun.
LogIdle ==
    /\ log_state = "UNINITIALIZED"
    /\ logger = "none"
    /\ max_level = LevelOff
    /\ pc = [c \in Callers |-> "start"]
    /\ ret = [c \in Callers |-> "none"]

\* Mutant: the logger is taken whatever STATE holds.
SetBoxedLogger_Unconditional(c) ==
    /\ pc[c] = "start"
    /\ log_state' = "INITIALIZING"
    /\ pc' = [pc EXCEPT ![c] = "store"]
    /\ UNCHANGED <<ret, logger, max_level, kind, filter>>
    /\ UNCHANGED encVars

\* log::set_boxed_logger, entered: the compare-and-swap of STATE.  The winner
\* goes on to store its logger; a caller that finds the logger being stored
\* waits; a caller that finds it stored fails, and init returns the error.
SetBoxedLogger(c) ==
    /\ pc[c] = "start"
    /\ \/ /\ log_state = "UNINITIALIZED"
          /\ log_state' = "INITIALIZING"
          /\ pc' = [pc EXCEPT ![c] = "store"]
          /\ UNCHANGED ret
       \/ /\ log_state = "INITIALIZING"
          /\ pc' = [pc EXCEPT ![c] = "spin"]
          /\ UNCHANGED <<log_state, ret>>
       \/ /\ log_state = "INITIALIZED"
          /\ pc' = [pc EXCEPT ![c] = "done"]
          /\ ret' = [ret EXCEPT ![c] = "err"]
          /\ UNCHANGED log_state
    /\ UNCHANGED <<logger, max_level, kind, filter>>
    /\ UNCHANGED encVars

\* The winner stores its logger and publishes it.
StoreLogger(c) ==
    /\ pc[c] = "store"
    /\ logger' = kind[c]
    /\ log_state' = "INITIALIZED"
    /\ pc' = [pc EXCEPT ![c] = "set_level"]
    /\ UNCHANGED <<max_level, kind, filter, ret>>
    /\ UNCHANGED encVars

\* A waiting caller sees the logger stored: set_boxed_logger fails.
AwaitInitialized(c) ==
    /\ pc[c] = "spin"
    /\ log_state = "INITIALIZED"
    /\ pc' = [pc EXCEPT ![c] = "done"]
    /\ ret' = [ret EXCEPT ![c] = "err"]
    /\ UNCHANGED <<log_state, logger, max_level, kind, filter>>
    /\ UNCHANGED encVars

\* After a successful set_boxed_logger: log::set_max_level, Trace for the ffi
\* logger, the filter's level for the default one; init returns Ok(()).
SetMaxLevel(c) ==
    /\ pc[c] = "set_level"
    /\ max_level' = IF kind[c] = "ffi" THEN LevelTrace ELSE filter[c]
    /\ pc' = [pc EXCEPT ![c] = "done"]
    /\ ret' = [ret EXCEPT ![c] = "ok"]
    /\ UNCHANGED <<log_state, logger, kind, filter>>
    /\ UNCHANGED encVars

----------------------------------------------------------------------------
(* The encoding calls: one call per behaviour, its input drawn by Init.    *)

EncInit == call \in Calls /\ result = NoResult

Init ==
    /\ EncInit
    /\ LogIdle
    /\ kind = [c \in Callers |-> "ffi"]
    /\ filter = [c \in Callers |-> LevelOff]

EncodedNull ==
    /\ call.op = "encoded_null"
    /\ result.tag = "None"
    /\ result' = encoded_null(call.backend)
    /\ UNCHANGED call
    /\ UNCHANGED logVars

EncodeFromRfc3339AsUnixtimestamp ==
    /\ call.op = "unixtimestamp"
    /\ result.tag = "None"
    /\ result' = encode_from_rfc3339_as_unixtimestamp(call.backend, call.arg)
    /\ UNCHANGED call
    /\ UNCHANGED logVars

EncodeFromRfc3339AsDayssince1900 ==
    /\ call.op = "dayssince1900"
    /\ result.tag = "None"
    /\ result' = encode_from_rfc3339_as_dayssince1900(call.backend, call.arg)
    /\ UNCHANGED call
    /\ UNCHANGED logVars

EncodeFromUtf8AsHash ==
    /\ call.op = "utf8_as_hash"
    /\ result.tag = "None"
    /\ result' = encode_from_utf8_as_hash(call.backend, call.arg)
    /\ UNCHANGED call
    /\ UNCHANGED logVars

EncodeFromF64 ==
    /\ call.op = "f64"
    /\ result.tag = "None"
    /\ result' = encode_from_f64(call.backend, call.arg)
    /\ UNCHANGED call
    /\ UNCHANGED logVars

EncodeFromIsize ==
    /\ call.op = "isize"
    /\ result.tag = "None"
    /\ result' = encode_from_isize(call.backend, call.arg)
    /\ UNCHANGED call
    /\ UNCHANGED logVars

EncodeFromUsize ==
    /\ call.op = "usize"
    /\ result.tag = "None"
    /\ result' = encode_from_usize(call.backend, call.arg)
    /\ UNCHANGED call
    /\ UNCHANGED logVars

FromVec ==
    /\ call.op = "from_vec"
    /\ result.tag = "None"
    /\ result' = Ok(from_vec(call.backend, call.arg))
    /\ UNCHANGED call
    /\ UNCHANGED logVars

Next ==
    \/ EncodedNull
    \/ EncodeFromRfc3339AsUnixtimestamp
    \/ EncodeFromRfc3339AsDayssince1900
    \/ EncodeFromUtf8AsHash
    \/ EncodeFromF64
    \/ EncodeFromIsize
    \/ EncodeFromUsize
    \/ FromVec

Spec == Init /\ [][Next]_vars

----------------------------------------------------------------------------
(* The logger on its own: every mix of the two inits, in every             *)
(* interleaving of their steps.                                            *)

LogInit ==
    /\ call = Call("encoded_null", "BigNumber", <<>>)
    /\ result = NoResult
    /\ LogIdle
    /\ kind \in [Callers -> {"ffi", "default"}]
    /\ filter \in [Callers -> FilterLevels]
    /\ \A c \in Callers : kind[c] = "ffi" => filter[c] = LevelOff

LogNext ==
    \E c \in Callers :
        \/ SetBoxedLogger(c)
        \/ StoreLogger(c)
        \/ AwaitInitialized(c)
        \/ SetMaxLevel(c)

LogSpec == LogInit /\ [][LogNext]_vars

----------------------------------------------------------------------------
(* Properties.                                                             *)

\* 2^254 written out: byte 0x40 and 31 zero bytes.
TwoTo254 == <<64>> \o Zeros(31)

\* 2^64 written out.
TwoTo64 == <<1>> \o Zeros(8)

Returned == result.tag # "None"

\* The same float with its sign flipped.
Negated(v) == [v EXCEPT !.neg = ~v.neg]

\* encode_from_f64(v) + encode_from_f64(-v) is zero_center(), where the first
\* term is the call's result.
SumsToZeroCenter ==
    LET other == encode_from_f64(call.backend, Negated(call.arg))
    IN  /\ result.tag = "Ok"
        /\ other.tag = "Ok"
        /\ add(call.backend, result.val, other.val) = Val(FALSE, TwoTo254)
        /\ zero_center(call.backend) = Val(FALSE, TwoTo254)

\* C1 as stated: for every finite nonzero f64 v (normal or subnormal) and both
\* backends, encode_from_f64(v) + encode_from_f64(-v) = zero_center().
C1_Original ==
    (Returned /\ call.op = "f64" /\ call.arg.cls \in {"Normal", "Subnormal"})
        => SumsToZeroCenter

\* C1 amended: for every normal f64 v (finite, nonzero, not subnormal) and both
\* backends, encode_from_f64(v) + encode_from_f64(-v) = zero_center(); a
\* subnormal v and its negation both encode to max() - 8 instead.
C1_NegationSumsToZeroCenter ==
    /\ (Returned /\ call.op = "f64" /\ call.arg.cls = "Normal") => SumsToZeroCenter
    /\ (Returned /\ call.op = "f64" /\ call.arg.cls = "Subnormal") =>
            /\ result = encode_from_f64(call.backend, Negated(call.arg))
            /\ result.val = sub(call.backend, max(call.backend),
                                from_u64(call.backend, I64Bytes(8)))

\* A negative normal float (-1.33f32) has been encoded by the field backend.
C1_Witness ==
    /\ Returned
    /\ call.op = "f64"
    /\ call.backend = "FieldElement"
    /\ call.arg.cls = "Normal"
    /\ call.arg.neg
    /\ call.arg.digits = Digits16(13300000, 42915344)
    /\ call.arg.exp = 0
    /\ result.tag = "Ok"

\* C2: encode_from_f64 classifies before any arithmetic, in both backends: NaN
\* and subnormal give max() - 8, +infinity max() - 9, -infinity the literal 8,
\* and either zero zero_center().
C2_Classification ==
    (Returned /\ call.op = "f64") =>
        LET b == call.backend
            v == call.arg
        IN  /\ result.tag = "Ok"
            /\ v.cls \in {"Nan", "Subnormal"} =>
                    result.val = sub(b, max(b), Val(FALSE, <<8>>))
            /\ (v.cls = "Infinite" /\ ~v.neg) =>
                    result.val = sub(b, max(b), Val(FALSE, <<9>>))
            /\ (v.cls = "Infinite" /\ v.neg) => result.val = Val(FALSE, <<8>>)
            /\ v.cls = "Zero" => result.val = Val(FALSE, TwoTo254)

\* The smallest subnormal has been encoded.
C2_Witness ==
    /\ Returned
    /\ call.op = "f64"
    /\ call.arg.cls = "Subnormal"
    /\ call.arg.exp = -324
    /\ result.tag = "Ok"

\* C3: encode_from_isize(v) succeeds for every v and is 2^254 + v for v >= 0,
\* 2^254 - |v| for v < 0 other than the minimum, and zero_center() minus
\* from_vec of the raw big-endian bytes for the minimum value.
C3_IsizeEncoding ==
    (Returned /\ call.op = "isize") =>
        LET b == call.backend
            v == call.arg
        IN  /\ result.tag = "Ok"
            /\ ~IsNegative(v) => result.val = Val(FALSE, AddN(TwoTo254, Strip(v)))
            /\ v = Zeros(8) => result.val = zero_center(b)
            /\ (IsNegative(v) /\ v # ISIZE_MIN) =>
                    result.val = Val(FALSE, SubN(TwoTo254, SubN(TwoTo64, Strip(v))))
            /\ v = ISIZE_MIN =>
                    /\ result.val = sub(b, zero_center(b), from_vec(b, v))
                    /\ result.val = Val(FALSE, SubN(TwoTo254, <<128>> \o Zeros(7)))

\* The minimum value has been encoded.
C3_Witness ==
    /\ Returned
    /\ call.op = "isize"
    /\ call.arg = ISIZE_MIN
    /\ result.tag = "Ok"

\* C4: the field backend's from_vec builds the element from exactly
\* FieldElement_SIZE bytes: a shorter input left-padded with zeros (its value
\* kept), an input of that length unchanged, and of a longer input the leading
\* FieldElement_SIZE bytes only.
C4_FromVecWidth ==
    (Returned /\ call.op = "from_vec" /\ call.backend = "FieldElement") =>
        LET bytes == call.arg
            n     == Len(bytes)
            data  == FieldElement_data(bytes)
            kept  == IF n > FieldElement_SIZE THEN SubSeq(bytes, 1, FieldElement_SIZE)
                     ELSE bytes
        IN  /\ Len(data) = FieldElement_SIZE
            /\ n < FieldElement_SIZE =>
                    /\ \A i \in 1..(FieldElement_SIZE - n) : data[i] = 0
                    /\ \A i \in 1..n : data[FieldElement_SIZE - n + i] = bytes[i]
            /\ n = FieldElement_SIZE => data = bytes
            /\ n > FieldElement_SIZE => \A i \in 1..FieldElement_SIZE : data[i] = bytes[i]
            /\ result.tag = "Ok"
            /\ result.val = Val(FALSE, RMod(Strip(kept), CurveOrder))

\* The field backend has taken a vector longer than its width whose dropped
\* tail is not zero.
C4_Witness ==
    /\ Returned
    /\ call.op = "from_vec"
    /\ call.backend = "FieldElement"
    /\ Len(call.arg) > FieldElement_SIZE
    /\ call.arg[Len(call.arg)] # 0
    /\ result.tag = "Ok"

\* The four reserved encodings of a backend.
Sentinels(b) ==
    { encoded_null(b).val,
      sub(b, max(b), from_u64(b, I64Bytes(8))),
      sub(b, max(b), from_u64(b, I64Bytes(9))),
      from_u64(b, I64Bytes(8)) }

\* C5 as stated: the four sentinels are pairwise distinct, and none of them is
\* the result of encode_from_isize, of encode_from_usize, of
\* encode_from_rfc3339_as_unixtimestamp for a date at or after the epoch, or
\* of encode_from_f64 for a normal input.
C5_SentinelsReserved ==
    /\ \A b \in Backends :
            /\ Cardinality(Sentinels(b)) = 4
            /\ encoded_null(b).val = Val(FALSE, <<7>>)
    /\ ( /\ Returned
         /\ \/ call.op \in {"isize", "usize"}
            \/ call.op = "unixtimestamp" /\ call.arg.wf /\ ~IsNegative(Timestamp(call.arg))
            \/ call.op = "f64" /\ call.arg.cls = "Normal" )
       => (result.tag = "Ok" /\ result.val \notin Sentinels(call.backend))

EncodeOps ==
    {"encoded_null", "unixtimestamp", "dayssince1900", "utf8_as_hash", "f64", "isize", "usize"}

\* C6 as stated: every value an encode transform returns, for either backend,
\* is a non-negative integer no greater than the backend's max().
C6_WithinDomain ==
    (Returned /\ call.op \in EncodeOps /\ result.tag = "Ok") =>
        /\ ~result.val.neg
        /\ Cmp(result.val.mag, max(call.backend).mag) <= 0

\* C7 as stated: the field backend's max() is the modulus minus one, the
\* arbitrary-precision backend's max() is 32 bytes of 0xFF, and max() - 8 and
\* max() - 9 lie 8 and 9 below the largest value of the domain.
C7_MaxIsLargest ==
    LET b       == call.backend
        largest == IF b = "FieldElement" THEN SubN(CurveOrder, <<1>>) ELSE Fill(32, 255)
    IN  /\ max(b) = Val(FALSE, largest)
        /\ sub(b, max(b), from_u64(b, I64Bytes(8))) = Val(FALSE, SubN(largest, <<8>>))
        /\ sub(b, max(b), from_u64(b, I64Bytes(9))) = Val(FALSE, SubN(largest, <<9>>))

TotalOps == {"f64", "isize", "usize", "utf8_as_hash", "encoded_null"}

\* C8: encode_from_f64, encode_from_isize, encode_from_usize,
\* encode_from_utf8_as_hash and encoded_null return a value for every input
\* and either backend, never an error or an abort; an error comes from the
\* two RFC3339 date transforms only.
C8_Total ==
    Returned =>
        /\ call.op \in TotalOps => (result.tag = "Ok" /\ IsOk(result.val))
        /\ result.tag = "Err" => call.op \in {"unixtimestamp", "dayssince1900"}
        /\ result.tag # "Panic"

\* The field backend has encoded the largest unsigned integer, whose 8 bytes
\* from_vec has to pad.
C8_Witness ==
    /\ Returned
    /\ call.op = "usize"
    /\ call.backend = "FieldElement"
    /\ call.arg = USIZE_MAX
    /\ result.tag = "Ok"

\* C9 as stated: encode_from_rfc3339_as_unixtimestamp returns an error and no
\* value for a malformed text; otherwise, with ts the signed epoch seconds, it
\* returns zero_center() + from_u64(ts as u64), so the epoch encodes to
\* zero_center() and an instant before 1970 to zero_center() + 2^64 + ts.
C9_UnixTimestamp ==
    (Returned /\ call.op = "unixtimestamp") =>
        LET b  == call.backend
            ts == Timestamp(call.arg)
        IN  /\ ~call.arg.wf => result = Err
            /\ call.arg.wf =>
                /\ result.tag = "Ok"
                /\ result.val = add(b, zero_center(b), from_u64(b, AsU64(ts)))
                /\ ts = Zeros(8) => result.val = Val(FALSE, TwoTo254)
                /\ result.val = Val(FALSE, AddN(TwoTo254, Strip(ts)))

\* The callers whose init has returned Ok(()).
Succeeded == {c \in Callers : ret[c] = "ok"}

\* C10: the logger is installed at most once.  In every interleaving of the
\* two init functions at most one call returns Ok; a call that begins after a
\* call has returned Ok returns an error; the step on which a call fails
\* changes neither the installed logger nor the maximum level; and once a
\* call has returned Ok the installed logger and the maximum level stay.
C10_InstalledAtMostOnce ==
    /\ [](Cardinality(Succeeded) <= 1)
    /\ [](\A c \in Callers : ret[c] = "ok" => (logger = kind[c] /\ log_state = "INITIALIZED"))
    /\ [][\A c \in Callers :
            (Succeeded # {} /\ pc[c] = "start" /\ pc'[c] # "start") => ret'[c] = "err"]_vars
    /\ [][\A c \in Callers :
            (ret[c] # "err" /\ ret'[c] = "err") =>
                (logger' = logger /\ max_level' = max_level /\ logger # "none")]_vars
    /\ [][logger # "none" => logger' = logger]_vars
    /\ [][Succeeded # {} => max_level' = max_level]_vars

\* One init has returned Ok, and an init of the other kind, asking for another
\* level, has failed and left the winner's logger and level in place.
C10_Witness ==
    \E c, d \in Callers :
        /\ ret[c] = "ok"
        /\ ret[d] = "err"
        /\ kind[c] = "default"
        /\ kind[d] = "ffi"
        /\ logger = kind[c]
        /\ max_level = filter[c]
        /\ max_level # LevelTrace

\* x < y for two backend values, as signed integers.
ValLess(x, y) ==
    IF x.neg # y.neg THEN x.neg
    ELSE IF x.neg THEN Cmp(x.mag, y.mag) > 0
    ELSE Cmp(x.mag, y.mag) < 0

\* a < b for two signed 64-bit patterns.
I64Less(a, b) ==
    IF IsNegative(a) # IsNegative(b) THEN IsNegative(a) ELSE Cmp(a, b) < 0

\* |a| < |b| for two normal floats, by exponent and then by digits.
F64MagLess(a, b) ==
    \/ a.exp < b.exp
    \/ a.exp = b.exp /\ a.digits # b.digits /\ DigitsLE(a.digits, b.digits)

\* a < b for two normal floats.
F64Less(a, b) ==
    IF a.neg # b.neg THEN a.neg
    ELSE IF a.neg THEN F64MagLess(b, a)
    ELSE F64MagLess(a, b)

\* The encodings of a, which the call returned, and of the larger input b are
\* in the same strict order.
EncodesBelow(other) ==
    /\ result.tag = "Ok"
    /\ other.tag = "Ok"
    /\ ValLess(result.val, other.val)

\* C11 as stated: numeric encodings preserve order.  For the input a of a
\* call of encode_from_isize (over the whole signed range, the minimum
\* included), of encode_from_usize, or of encode_from_f64 on a normal value,
\* and for any larger input b of the same transform, the encoding of a is
\* strictly less than the encoding of b.
C11_OrderPreserved ==
    /\ (Returned /\ call.op = "isize") =>
            \A b \in IsizeValues :
                I64Less(call.arg, b) => EncodesBelow(encode_from_isize(call.backend, b))
    /\ (Returned /\ call.op = "usize") =>
            \A b \in UsizeValues :
                Cmp(call.arg, b) < 0 => EncodesBelow(encode_from_usize(call.backend, b))
    /\ (Returned /\ call.op = "f64" /\ call.arg.cls = "Normal") =>
            \A b \in {v \in F64Values : v.cls = "Normal"} :
                F64Less(call.arg, b) => EncodesBelow(encode_from_f64(call.backend, b))

====
